---------------------------- MODULE Spec2Model ----------------------------
(***************************************************************************)
(* A model of dataset.py: the sample-file parser, the batch collator, the  *)
(* dataset expander (resampling_v2) and BadmintonDataset (__init__,        *)
(* __getitem__, get_norm_stats).                                           *)
(*                                                                         *)
(* Numbers are exact: a mean is a reduced fraction, and a standard         *)
(* deviation is represented by the variance it is the root of (std =       *)
(* sqrt(var) + 1e-6 is an injective function of var), so two statistics    *)
(* are equal in the model exactly when they are equal as real numbers.     *)
(* float32 rounding is not modelled.                                       *)
(***************************************************************************)
EXTENDS Integers, Sequences, FiniteSets, TLC

VARIABLES
    policy,      \* the caller's <<min_len, max_len>>, passed to every constructor
    train_args,  \* arguments of the training-mode constructor call, <<>> before it
    train_ds,    \* the training-mode BadmintonDataset object, <<>> before it
    eval_args,   \* arguments of the evaluation-mode constructor call
    eval_ds,     \* the evaluation-mode BadmintonDataset object
    result,      \* outcome of the last __getitem__ call, <<>> before any
    file,        \* parser: the lines of the file handed to parse_sample_file
    parsed,      \* parser: outcome of parse_sample_file, <<>> before the call
    batch,       \* collator: the batch handed to collate_fn_dynamic
    collated     \* collator: outcome of collate_fn_dynamic, <<>> before the call

vars == <<policy, train_args, train_ds, eval_args, eval_ds, result,
          file, parsed, batch, collated>>

dataVars == <<policy, train_args, train_ds, eval_args, eval_ds, result>>
parseVars == <<file, parsed>>
collateVars == <<batch, collated>>

----------------------------------------------------------------------------
(* Bounds *)

MaxLen == 2      \* longest trajectory, in frames
MaxN == 2        \* most raw trajectories handed to a constructor
MaxR == 2        \* largest num_subsamples
MaxEntries == 4  \* most entries of an expanded training pool
MaxWin == 3      \* largest min_len / max_len
FeatDim == 2     \* width of a frame vector (63 in the program)
MaxLines == 3    \* most lines of a sample file
MaxId == 2       \* largest frame number written in a sample file
MaxBatch == 3    \* most examples in a batch
MaxSeqLen == 3   \* longest example in a batch

\* Python's None, and an optional value <<v>>
None == <<>>
Some(v) == <<v>>
Val(o) == o[1]

----------------------------------------------------------------------------
(* Exact arithmetic *)

Abs(x) == IF x < 0 THEN -x ELSE x
Max2(a, b) == IF a >= b THEN a ELSE b
Min2(a, b) == IF a <= b THEN a ELSE b

RECURSIVE GCD(_, _)
GCD(a, b) == IF b = 0 THEN a ELSE GCD(b, a % b)

\* the fraction n/d (d > 0) in lowest terms
Frac(n, d) ==
    LET g == GCD(Abs(n), d)
    IN  [num |-> n \div g, den |-> d \div g]

RECURSIVE SumSeq(_)
SumSeq(s) == IF s = <<>> THEN 0 ELSE Head(s) + SumSeq(Tail(s))

RECURSIVE Concat(_)
Concat(ss) == IF ss = <<>> THEN <<>> ELSE Head(ss) \o Concat(Tail(ss))

\* numpy's mean(axis=0) of one column
Mean(col) == Frac(SumSeq(col), Len(col))

\* numpy's std(axis=0) of one column (ddof = 0), as its variance
Std(col) ==
    LET n == Len(col)
        s == SumSeq(col)
        q == SumSeq([i \in 1..n |-> col[i] * col[i]])
    IN  Frac(n * q - s * s, n * n)

\* (x - mean) / std, kept as the centred value and the scale
Normalize(x, mean, std) ==
    [centred |-> Frac(x * mean.den - mean.num, mean.den), scale |-> std]

----------------------------------------------------------------------------
(* Trajectories *)

\* a raw trajectory of n frames, as parse_sample_file returns it
Traj(n) ==
    [frames    |-> [i \in 1..n |-> [d \in 1..FeatDim |-> n + i + d]],
     frame_ids |-> [i \in 1..n |-> n + 2 * i],
     drop_frame |-> 3 * n + n,
     label_xyz |-> <<n, 2 * n, 0>>]

Pool == {Traj(n) : n \in 1..MaxLen}

SeqsUpTo(S, n) == UNION {[1..k -> S] : k \in 1..n}

RawLists == SeqsUpTo(Pool, MaxN)

Policies == {<<lo, hi>> \in (0..MaxWin) \X (0..MaxWin) : lo <= hi}


----------------------------------------------------------------------------
(* resampling_v2 *)

\* the list with the first occurrence of x removed
RECURSIVE RemoveOne(_, _)
RemoveOne(s, x) ==
    IF s = <<>> THEN <<>>
    ELSE IF Head(s) = x THEN Tail(s)
    ELSE <<Head(s)>> \o RemoveOne(Tail(s), x)

\* random.shuffle: every ordering of the list
RECURSIVE Shuffles(_)
Shuffles(s) ==
    IF s = <<>> THEN {<<>>}
    ELSE UNION {{<<x>> \o t : t \in Shuffles(RemoveOne(s, x))} :
                x \in {s[i] : i \in 1..Len(s)}}

\* one entry of the expanded pool: a new dict over the same arrays
SubSample(s) ==
    [frames |-> s.frames, frame_ids |-> s.frame_ids,
     drop_frame |-> s.drop_frame, label_xyz |-> s.label_xyz]

\* range(1, num_subsamples): one entry too few per sample
ExpandOneLess(samples, num_subsamples) ==
    Concat([i \in 1..Len(samples) |->
               [k \in 1..(num_subsamples - 1) |-> SubSample(samples[i])]])

\* the skip of resampling (seq_len > total_len: continue) left in the loop,
\* with the k-th entry of a sample wanting k frames
ExpandSkipShort(samples, num_subsamples) ==
    Concat([i \in 1..Len(samples) |->
               [k \in 1..Min2(num_subsamples, Len(samples[i].frames)) |->
                   SubSample(samples[i])]])

\* the loops of resampling_v2: num_subsamples entries per sample, in order
Expand(samples, num_subsamples) ==
    Concat([i \in 1..Len(samples) |->
               [k \in 1..num_subsamples |-> SubSample(samples[i])]])

\* the lists resampling_v2 can return
resampling_v2(samples, num_subsamples) ==
    Shuffles(Expand(samples, num_subsamples))

----------------------------------------------------------------------------
(* BadmintonDataset.__init__ *)

Last(s) == s[Len(s)]

Column(rows, d) == [i \in 1..Len(rows) |-> rows[i][d]]

\* np.concatenate of the samples' frames
AllFeatures(samples) == Concat([i \in 1..Len(samples) |-> samples[i].frames])

\* the label vector of one sample: [x, y, z, drop_frame - frame_ids[-1]]
LabelVector(s) == s.label_xyz \o <<s.drop_frame - Last(s.frame_ids)>>

AllLabels(samples) == [i \in 1..Len(samples) |-> LabelVector(samples[i])]

ColumnMeans(rows) == [d \in DOMAIN rows[1] |-> Mean(Column(rows, d))]
ColumnStds(rows) == [d \in DOMAIN rows[1] |-> Std(Column(rows, d))]

\* the four statistics the training branch computes from its argument
ComputeStats(samples) ==
    [feature_mean |-> ColumnMeans(AllFeatures(samples)),
     feature_std  |-> ColumnStds(AllFeatures(samples)),
     label_mean   |-> ColumnMeans(AllLabels(samples)),
     label_std    |-> ColumnStds(AllLabels(samples))]

\* mode == "train": statistics of the argument, then self.samples replaced by
\* the expanded list (expanded is one of resampling_v2's possible results)
InitTrain(samples, min_len, max_len, expanded) ==
    LET st == ComputeStats(samples)
    IN  [samples |-> expanded, min_len |-> min_len, max_len |-> max_len,
         mode |-> "train",
         feature_mean |-> Some(st.feature_mean),
         feature_std  |-> Some(st.feature_std),
         label_mean   |-> Some(st.label_mean),
         label_std    |-> Some(st.label_std)]

\* the evaluation branch computing its own statistics
InitEvalRecompute(samples, min_len, max_len, mode, feature_mean, feature_std, label_mean, label_std) ==
    LET st == ComputeStats(samples)
    IN  [samples |-> samples, min_len |-> min_len, max_len |-> max_len,
         mode |-> mode,
         feature_mean |-> Some(st.feature_mean),
         feature_std  |-> Some(st.feature_std),
         label_mean   |-> Some(st.label_mean),
         label_std    |-> Some(st.label_std)]

\* any other mode: the arguments are stored as they are, None included
InitEval(samples, min_len, max_len, mode, feature_mean, feature_std, label_mean, label_std) ==
    [samples |-> samples, min_len |-> min_len, max_len |-> max_len,
     mode |-> mode,
     feature_mean |-> feature_mean, feature_std |-> feature_std,
     label_mean |-> label_mean, label_std |-> label_std]

get_norm_stats(ds) ==
    <<ds.feature_mean, ds.feature_std, ds.label_mean, ds.label_std>>

len(ds) == Len(ds.samples)

----------------------------------------------------------------------------
(* BadmintonDataset.__getitem__ *)

\* a[start:stop] of numpy and Python: a negative bound counts from the end,
\* and both bounds are clipped to the sequence
SliceBound(i, n) == IF i < 0 THEN Max2(i + n, 0) ELSE Min2(i, n)

Slice(a, start, stop) ==
    SubSeq(a, SliceBound(start, Len(a)) + 1, SliceBound(stop, Len(a)))

\* the training branch without the clamp of seq_len to total_len
TrainWindowNoClamp(total_len, seq_len) ==
    [seq_len |-> seq_len, start_idx |-> (total_len - 1) - seq_len + 1,
     end_idx |-> total_len - 1]

\* the training branch taking the first seq_len frames instead of the last
TrainWindowFromStart(total_len, seq_len) ==
    LET clamped == IF seq_len > total_len THEN total_len ELSE seq_len
    IN  [seq_len |-> clamped, start_idx |-> 0, end_idx |-> clamped - 1]

\* the training branch: seq_len is the value np.random.randint drew
TrainWindow(total_len, seq_len) ==
    LET clamped == IF seq_len > total_len THEN total_len ELSE seq_len
        end_idx == total_len - 1
    IN  [seq_len |-> clamped, start_idx |-> end_idx - clamped + 1,
         end_idx |-> end_idx]

\* the evaluation branch: the last max_len frames
EvalWindow(total_len, max_len) ==
    [seq_len |-> max_len, start_idx |-> total_len - max_len,
     end_idx |-> total_len - 1]

NormalizeRow(row, mean, std) ==
    [d \in DOMAIN row |-> Normalize(row[d], mean[d], std[d])]

\* __getitem__(idx) on ds (idx counts from 0); draw is the random seq_len of
\* the training branch.  status is "raise" when frame_ids[-1] reads an empty
\* slice (IndexError) or torch.from_numpy is handed None (TypeError).
GetItem(ds, idx, draw) ==
    LET s == ds.samples[idx + 1]
        total_len == Len(s.frames)
        w == IF ds.mode = "train" THEN TrainWindow(total_len, draw)
             ELSE EvalWindow(total_len, ds.max_len)
        frames == Slice(s.frames, w.start_idx, w.end_idx + 1)
        frame_ids == Slice(s.frame_ids, w.start_idx, w.end_idx + 1)
        returns == /\ frame_ids # <<>>
                   /\ None \notin {ds.feature_mean, ds.feature_std,
                                   ds.label_mean, ds.label_std}
        time_raw == s.drop_frame - Last(frame_ids)
        label_all == NormalizeRow(s.label_xyz \o <<time_raw>>,
                                  Val(ds.label_mean), Val(ds.label_std))
    IN  [mode |-> ds.mode, idx |-> idx, entry |-> s, draw |-> draw,
         min_len |-> ds.min_len, max_len |-> ds.max_len,
         total_len |-> total_len,
         start_idx |-> w.start_idx, end_idx |-> w.end_idx,
         frame_ids |-> frame_ids,
         status |-> IF returns THEN "ok" ELSE "raise",
         seq |-> IF returns
                 THEN [i \in 1..Len(frames) |->
                          NormalizeRow(frames[i], Val(ds.feature_mean),
                                       Val(ds.feature_std))]
                 ELSE <<>>,
         length |-> IF returns THEN Some(Len(frames)) ELSE None,
         label_time_raw |-> IF returns THEN Some(time_raw) ELSE None,
         label_xyz_norm |-> IF returns THEN SubSeq(label_all, 1, 3) ELSE None,
         label_time_norm |-> IF returns THEN Some(label_all[4]) ELSE None]

----------------------------------------------------------------------------
(* The caller: one training-mode and one evaluation-mode dataset *)

EvalModes == {"test"}

\* what the caller can pass for one statistic: nothing, or the training
\* dataset's value
Given(stat) == {None} \cup (IF train_ds = None THEN {} ELSE {stat})

InitData ==
    /\ policy \in Policies
    /\ train_args = None
    /\ train_ds = None
    /\ eval_args = None
    /\ eval_ds = None
    /\ result = None

ConstructTrain ==
    /\ train_ds = None
    /\ \E samples \in RawLists, R \in 1..MaxR :
         \E expanded \in resampling_v2(samples, R) :
            /\ R * Len(samples) <= MaxEntries
            /\ train_args' = Some([samples |-> samples, num_subsamples |-> R])
            /\ train_ds' = Some(InitTrain(samples, policy[1], policy[2], expanded))
    /\ UNCHANGED <<policy, eval_args, eval_ds, result, parseVars, collateVars>>

ConstructEval ==
    /\ eval_ds = None
    /\ \E samples \in RawLists, mode \in EvalModes :
         LET t == IF train_ds = None THEN InitEval(<<>>, 0, 0, "", None, None, None, None)
                  ELSE Val(train_ds)
         IN  \E fm \in Given(t.feature_mean), fs \in Given(t.feature_std),
                lm \in Given(t.label_mean), ls \in Given(t.label_std) :
                /\ eval_args' = Some([samples |-> samples,
                                      feature_mean |-> fm, feature_std |-> fs,
                                      label_mean |-> lm, label_std |-> ls])
                /\ eval_ds' = Some(InitEval(samples, policy[1], policy[2], mode,
                                            fm, fs, lm, ls))
    /\ UNCHANGED <<policy, train_args, train_ds, result, parseVars, collateVars>>

\* the evaluation dataset as __main__ builds it: over the same samples, with
\* the training dataset's get_norm_stats()
ConstructEvalMain ==
    /\ train_ds # None
    /\ eval_ds = None
    /\ LET t == Val(train_ds)
           samples == Val(train_args).samples
       IN  /\ eval_args' = Some([samples |-> samples,
                                 feature_mean |-> t.feature_mean,
                                 feature_std |-> t.feature_std,
                                 label_mean |-> t.label_mean,
                                 label_std |-> t.label_std])
           /\ eval_ds' = Some(InitEval(samples, policy[1], policy[2], "test",
                                       t.feature_mean, t.feature_std,
                                       t.label_mean, t.label_std))
    /\ UNCHANGED <<policy, train_args, train_ds, result, parseVars, collateVars>>

GetItemTrain ==
    /\ train_ds # None
    /\ \E idx \in 0..(len(Val(train_ds)) - 1), draw \in policy[1]..policy[2] :
         result' = Some(GetItem(Val(train_ds), idx, draw))
    /\ UNCHANGED <<policy, train_args, train_ds, eval_args, eval_ds, parseVars, collateVars>>

GetItemEval ==
    /\ eval_ds # None
    /\ \E idx \in 0..(len(Val(eval_ds)) - 1) :
         result' = Some(GetItem(Val(eval_ds), idx, 0))
    /\ UNCHANGED <<policy, train_args, train_ds, eval_args, eval_ds, parseVars, collateVars>>

----------------------------------------------------------------------------
(* parse_sample_file *)

\* A line of the file: blank (whitespace only), malformed (split(":"), int()
\* or float() raises on it), or "<id>:<c1,...,cw>" with w >= 1 numbers.
BlankLine == [kind |-> "blank", id |-> 0, coords |-> <<>>]
BadLine == [kind |-> "bad", id |-> 0, coords |-> <<>>]
DataLine(id, w) == [kind |-> "data", id |-> id, coords |-> [d \in 1..w |-> id + d]]

Widths == {FeatDim - 1, FeatDim, FeatDim + 1}

Lines == {BlankLine, BadLine} \cup {DataLine(id, w) : id \in 1..MaxId, w \in Widths}

Files == UNION {[1..k -> Lines] : k \in 0..MaxLines}

\* lines = [ln.strip() for ln in f if ln.strip()]
NonBlank(f) == SelectSeq(f, LAMBDA ln : ln.kind # "blank")

\* coords[:63] when len(coords) != 63
Truncate(coords) == IF Len(coords) # FeatDim THEN Slice(coords, 0, FeatDim) ELSE coords

\* the frame_ids and frames lists after the loop over lines[:-1]
FrameIds(body) == [i \in 1..Len(body) |-> body[i].id]

\* a row of the wrong width skipped after its id was appended
FramesSkipWide(body) ==
    LET kept == SelectSeq(body, LAMBDA ln : Len(ln.coords) = FeatDim)
    IN  [i \in 1..Len(kept) |-> kept[i].coords]

Frames(body) == [i \in 1..Len(body) |-> Truncate(body[i].coords)]

\* np.stack raises on an empty list and on rows of different widths
Stackable(rows) ==
    /\ rows # <<>>
    /\ \A i \in 1..Len(rows) : Len(rows[i]) = Len(rows[1])

ParseError == [status |-> "raise", frames |-> <<>>, frame_ids |-> <<>>,
               drop_frame |-> 0, label_xyz |-> <<>>]

parse_sample_file(f) ==
    LET lines == NonBlank(f)
        body == SubSeq(lines, 1, Len(lines) - 1)
    IN  IF Len(lines) < 2 THEN ParseError
        ELSE IF \E i \in 1..Len(lines) : lines[i].kind = "bad" THEN ParseError
        ELSE IF ~Stackable(Frames(body)) THEN ParseError
        ELSE [status |-> "ok", frames |-> Frames(body),
              frame_ids |-> FrameIds(body),
              drop_frame |-> Last(lines).id, label_xyz |-> Last(lines).coords]

InitParse ==
    /\ file \in Files
    /\ parsed = None

Parse ==
    /\ parsed = None
    /\ parsed' = Some(parse_sample_file(file))
    /\ UNCHANGED <<file, dataVars, collateVars>>

----------------------------------------------------------------------------
(* collate_fn_dynamic *)

\* an accessor output of l frames: (seq, length, label_xyz, label_time);
\* the frames are non-zero so that padding can be told from data
Example(l, v) ==
    [seq |-> [i \in 1..l |-> [d \in 1..FeatDim |-> 10 * v + i]],
     length |-> l, label_xyz |-> <<v, v, v>>, label_time |-> l + v]

Examples == {Example(l, v) : l \in 1..MaxSeqLen, v \in {1, 2}}

Batches == SeqsUpTo(Examples, MaxBatch)

RECURSIVE MaxOf(_)
MaxOf(s) == IF Len(s) = 1 THEN s[1] ELSE Max2(Head(s), MaxOf(Tail(s)))

\* torch.zeros(pad_len, feature_dim)
Zeros(pad_len, feature_dim) == [i \in 1..pad_len |-> [d \in 1..feature_dim |-> 0]]

\* the padding appended instead of prepended
PadSeqRight(seq, pad_len, feature_dim) ==
    IF pad_len > 0 THEN seq \o Zeros(pad_len, feature_dim) ELSE seq

\* pad, then seq, when pad_len > 0
PadSeq(seq, pad_len, feature_dim) ==
    IF pad_len > 0 THEN Zeros(pad_len, feature_dim) \o seq ELSE seq

\* ones(max_len) with mask[:pad_len] = False
MakeMask(max_len, pad_len) ==
    [i \in 1..max_len |-> ~(i <= SliceBound(pad_len, max_len))]

collate_fn_dynamic(b) ==
    LET lengths == [i \in 1..Len(b) |-> b[i].length]
        feature_dim == Len(b[1].seq[1])
        max_len == MaxOf(lengths)
    IN  [seqs_padded |-> [i \in 1..Len(b) |->
                             PadSeq(b[i].seq, max_len - lengths[i], feature_dim)],
         lengths |-> lengths,
         masks |-> [i \in 1..Len(b) |-> MakeMask(max_len, max_len - lengths[i])],
         xyzs |-> [i \in 1..Len(b) |-> b[i].label_xyz],
         times |-> [i \in 1..Len(b) |-> b[i].label_time]]

InitCollate ==
    /\ batch \in Batches
    /\ collated = None

Collate ==
    /\ collated = None
    /\ collated' = Some(collate_fn_dynamic(batch))
    /\ UNCHANGED <<batch, dataVars, parseVars>>

----------------------------------------------------------------------------
(* Specifications *)

IdleData ==
    /\ policy = <<1, 1>>
    /\ train_args = None
    /\ train_ds = None
    /\ eval_args = None
    /\ eval_ds = None
    /\ result = None

IdleParse == file = <<>> /\ parsed = None

IdleCollate == batch = <<>> /\ collated = None

\* the datasets, with any samples and any statistics handed to the evaluation
\* dataset
Init == InitData /\ IdleParse /\ IdleCollate

Next ==
    \/ ConstructTrain
    \/ ConstructEval
    \/ GetItemTrain
    \/ GetItemEval

Spec == Init /\ [][Next]_vars

\* the datasets as __main__ uses them
NextMain ==
    \/ ConstructTrain
    \/ ConstructEvalMain
    \/ GetItemTrain
    \/ GetItemEval

SpecMain == Init /\ [][NextMain]_vars

\* the parser
InitP == IdleData /\ InitParse /\ IdleCollate
NextParse == Parse
SpecParse == InitP /\ [][NextParse]_vars

\* the collator
InitC == IdleData /\ IdleParse /\ InitCollate
NextCollate == Collate
SpecCollate == InitC /\ [][NextCollate]_vars

----------------------------------------------------------------------------
(* Properties *)

Count(list, x) == Cardinality({i \in 1..Len(list) : list[i] = x})

GivenStats(a) == <<a.feature_mean, a.feature_std, a.label_mean, a.label_std>>

StatsTuple(st) ==
    <<Some(st.feature_mean), Some(st.feature_std),
      Some(st.label_mean), Some(st.label_std)>>

\* the dataset the last __getitem__ call was made on
ResultDs == IF Val(result).mode = "train" THEN Val(train_ds) ELSE Val(eval_ds)

\* C1: once the training dataset exists no step (constructing the evaluation
\* dataset, __getitem__ on either dataset) changes what its get_norm_stats()
\* returns, and the evaluation dataset's get_norm_stats() returns the four
\* values its constructor was given.
C1_StatsFrozen ==
    [][/\ train_ds # None =>
            get_norm_stats(Val(train_ds')) = get_norm_stats(Val(train_ds))
       /\ eval_ds' # None =>
            get_norm_stats(Val(eval_ds')) = GivenStats(Val(eval_args'))]_vars

\* C1 witness: an evaluation dataset built with the training statistics over
\* samples whose own statistics differ, after a __getitem__ on it returned
C1_Witness ==
    /\ train_ds # None /\ eval_ds # None /\ result # None
    /\ Val(result).mode # "train" /\ Val(result).status = "ok"
    /\ get_norm_stats(Val(eval_ds)) = get_norm_stats(Val(train_ds))
    /\ StatsTuple(ComputeStats(Val(eval_ds).samples)) # get_norm_stats(Val(eval_ds))

\* C2: no evaluation-mode dataset object exists with one of its four
\* statistics missing (construction fails instead).
C2_NoEvalWithoutStats ==
    eval_ds # None => None \notin {Val(eval_ds).feature_mean, Val(eval_ds).feature_std,
                                   Val(eval_ds).label_mean, Val(eval_ds).label_std}

\* C3: with 1 <= min_len <= max_len the window of every __getitem__ call that
\* returns, in either mode, satisfies 0 <= start_idx <= end_idx <= total_len-1
\* and end_idx = total_len-1.
C3_WindowInBounds ==
    (result # None /\ Val(result).status = "ok"
                   /\ 1 <= Val(result).min_len
                   /\ Val(result).min_len <= Val(result).max_len) =>
        /\ 0 <= Val(result).start_idx
        /\ Val(result).start_idx <= Val(result).end_idx
        /\ Val(result).end_idx <= Val(result).total_len - 1
        /\ Val(result).end_idx = Val(result).total_len - 1

\* C4: in evaluation mode with max_len > total_len, __getitem__ fails or
\* returns the full trajectory, never a proper sub-window.
C4_EvalFullOrFail ==
    (result # None /\ Val(result).mode # "train"
                   /\ Val(result).max_len > Val(result).total_len) =>
        \/ Val(result).status = "raise"
        \/ Val(result).length = Some(Val(result).total_len)

C7_ShortTrajectoryWhole ==
    (result # None /\ Val(result).mode = "train"
                   /\ Val(result).total_len <= Val(result).min_len
                   /\ Val(result).min_len <= Val(result).max_len) =>
        /\ Val(result).status = "ok"
        /\ Val(result).start_idx = 0
        /\ Val(result).end_idx = Val(result).total_len - 1
        /\ Val(result).length = Some(Val(result).total_len)

\* C7 witness: total_len = min_len and a draw longer than the trajectory
C7_Witness ==
    /\ result # None /\ Val(result).mode = "train"
    /\ Val(result).total_len = Val(result).min_len
    /\ Val(result).draw > Val(result).total_len
    /\ Val(result).total_len > 1
    /\ Val(result).status = "ok"

\* C9: the statistics a training dataset stores equal the statistics of its
\* expanded pool (all frames and all label vectors of its R*N entries).
C9_StatsOfExpandedPool ==
    train_ds # None =>
        get_norm_stats(Val(train_ds)) = StatsTuple(ComputeStats(Val(train_ds).samples))

\* C9 witness: trajectories of different lengths, replicated twice
C9_Witness ==
    /\ train_ds # None
    /\ Val(train_args).num_subsamples >= 2
    /\ \E i, j \in 1..Len(Val(train_args).samples) :
          Len(Val(train_args).samples[i].frames) # Len(Val(train_args).samples[j].frames)
    /\ len(Val(train_ds)) > Len(Val(train_args).samples)

\* C10: whenever __getitem__ returns, in either mode, its raw time label is
\* drop_frame minus the last frame id of the full trajectory, and the labels
\* it returns are that entry's label vector normalised by the dataset's
\* statistics.
C10_TimeLabelOfFullTrajectory ==
    (result # None /\ Val(result).status = "ok") =>
        LET r == Val(result)
            norm == NormalizeRow(LabelVector(r.entry), Val(ResultDs.label_mean),
                                 Val(ResultDs.label_std))
        IN  /\ r.label_time_raw = Some(r.entry.drop_frame - Last(r.entry.frame_ids))
            /\ r.label_xyz_norm = SubSeq(norm, 1, 3)
            /\ r.label_time_norm = Some(norm[4])

\* C10 witness: a training access that returned a proper sub-window
C10_Witness ==
    /\ result # None /\ Val(result).status = "ok"
    /\ Val(result).mode = "train"
    /\ Val(result).length # Some(Val(result).total_len)

----------------------------------------------------------------------------
(* Properties of the parser, under SpecParse *)

\* C8 as stated: every trajectory parse_sample_file returns has
\* len(frames) = len(frame_ids) >= 2.
C8_AtLeastTwoFrames ==
    (parsed # None /\ Val(parsed).status = "ok") =>
        /\ Len(Val(parsed).frames) = Len(Val(parsed).frame_ids)
        /\ Len(Val(parsed).frames) >= 2

\* C8 amended: every trajectory parse_sample_file returns has
\* len(frames) = len(frame_ids) >= 1, and a file with fewer than 2 non-blank
\* lines is rejected.
C8_AtLeastOneFrame ==
    parsed # None =>
        /\ Val(parsed).status = "ok" =>
              /\ Len(Val(parsed).frames) = Len(Val(parsed).frame_ids)
              /\ Len(Val(parsed).frames) >= 1
        /\ Len(NonBlank(file)) < 2 => Val(parsed).status = "raise"

\* C8 witness: a file of one frame line and the landing line, returned with a
\* single frame
C8_Witness ==
    /\ parsed # None /\ Val(parsed).status = "ok"
    /\ Len(Val(parsed).frames) = 1
    /\ Len(NonBlank(file)) = 2

----------------------------------------------------------------------------
(* Properties of the collator, under SpecCollate *)

\* C6: for a batch of B examples of lengths l_i and width F the result has
\* shape (B, maxL, F); mask[i] is maxL - l_i false values then l_i true ones;
\* the first maxL - l_i rows of sequences[i] are zero frames and the last l_i
\* rows are the example's frames in order.
C6_LeftPaddedAndMasked ==
    collated # None =>
        LET c == Val(collated)
            B == Len(batch)
            maxL == MaxOf([i \in 1..B |-> Len(batch[i].seq)])
            F == Len(batch[1].seq[1])
        IN  /\ Len(c.seqs_padded) = B /\ Len(c.masks) = B
            /\ \A i \in 1..B :
                  LET l == Len(batch[i].seq)
                  IN  /\ Len(c.seqs_padded[i]) = maxL
                      /\ Len(c.masks[i]) = maxL
                      /\ \A k \in 1..maxL :
                            /\ Len(c.seqs_padded[i][k]) = F
                            /\ c.masks[i][k] = (k > maxL - l)
                            /\ k <= maxL - l =>
                                  \A d \in 1..F : c.seqs_padded[i][k][d] = 0
                            /\ k > maxL - l =>
                                  c.seqs_padded[i][k] = batch[i].seq[k - (maxL - l)]

\* C6 witness: a collated batch with a padded example and a full-length one
C6_Witness ==
    /\ collated # None
    /\ Len(batch) >= 2
    /\ \E i, j \in 1..Len(batch) :
          /\ Len(batch[i].seq) + 2 <= Len(batch[j].seq)
          /\ \A k \in 1..Len(batch[j].seq) : Val(collated).masks[j][k]
          /\ ~Val(collated).masks[i][1]

=============================================================================
